---- MODULE Spec2Model ----
(***************************************************************************)
(* A model of kvmd's GPIO ATX plugin (kvmd/plugins/atx/gpio.py): the two   *)
(* switch lines driven by click sequences under one exclusive region, the *)
(* cached LED inputs, and the change-only state stream of poll_state.      *)
(*                                                                         *)
(* The plugin's collaborators kvmd.aiotools (AioNotifier,                  *)
(* AioExclusiveRegion, run_region_task, atomic) and kvmd.aiogp             *)
(* (AioPinsReader) are modelled from their documented contracts.           *)
(***************************************************************************)
EXTENDS Integers, Sequences, FiniteSets, TLC

\* ----- bounds of the model
NumTasks == 2        \* concurrent click / power requests

Tasks == 1..NumTasks

\* ----- the default hold delays and the settle sleep of __inner_click, in
\* tenths of a second
ClickDelay == 1
LongClickDelay == 55
SettleDelay == 10

SwitchLines == {"power_switch", "reset_switch"}
LedPins == {"power_led", "hdd_led"}

ClickOps == {"click_power", "click_power_long", "click_reset"}
PowerOps == {"power_on", "power_off", "power_off_hard", "power_reset_hard"}

None == [busy |-> FALSE, power |-> FALSE, hdd |-> FALSE, none |-> TRUE]

NoReq == [op |-> "none", name |-> "none", line |-> "none", delay |-> 0, wait |-> FALSE]

VARIABLES
    chip,        \* self.__chip is not None (sysprep has run)
    lines,       \* value of each output line
    leds,        \* the reader's cached (post-inversion) value of each input pin
    busy,        \* the region's busy flag
    req,         \* per task: the arguments of its click
    pc,          \* per task: position of its click
    caller,      \* per task: what the caller of the operation has seen
    exc,         \* per task: exception pending in / raised by the click body
    spc,         \* position of the poll_state generator
    prev_state,  \* the generator's local prev_state
    state,       \* the generator's local state
    emitted,     \* the snapshot the generator yielded last (history)
    changes,     \* input transitions since the generator suspended in
                 \* notifier.wait(): 0, 1, or 2 for two or more (history)
    prep,        \* sysprep: handles = which acquisition the chip and line
                 \* handles come from (0: none yet), exc = what the last call
                 \* raised
    timer        \* the event loop's timer for the click body in the region:
                 \* now = time since the region was entered, wake = when the
                 \* body's current sleep is due (tenths of a second)

vars == <<chip, prep, lines, leds, busy, req, pc, caller, exc,
          spc, prev_state, state, emitted, changes, timer>>

clickVars == <<lines, busy, req, pc, caller, exc, timer>>
streamVars == <<spc, prev_state, state, emitted, changes>>

\* One poll_state generator is modelled: generators share nothing but the
\* notifier, which wakes all of them, so each behaves as this one does.
\* Its positions:
\*   ready     runnable: at its first pull, or woken by a notify
\*   yielded   suspended at `yield state`, the consumer holding the snapshot
\*   waiting   suspended in `await self.__notifier.wait()`
\*
\* Positions of a task.
\*   idle      no operation called yet
\*   waiting   suspended in the region's blocking entry
\*   spawned   region entered, background body not started yet (wait = False)
\*   hold      line asserted, body in `await asyncio.sleep(delay)`
\*   settle    line deasserted, body in `await asyncio.sleep(1)` of the finally
\*   done      body ended and region left
\*   noop      power operation decided not to click
\*   rejected  non-blocking click found the region busy
\*   aborted   cancelled while waiting for the region
Finished == {"idle", "done", "noop", "rejected", "aborted"}
Inside == {"spawned", "hold", "settle"}

\* ----- get_state / __get_power
GetStateHddFromPower ==
    [busy |-> busy, power |-> leds["power_led"], hdd |-> leds["power_led"], none |-> FALSE]

GetState ==
    [busy |-> busy, power |-> leds["power_led"], hdd |-> leds["hdd_led"], none |-> FALSE]

GetPowerFromHdd == GetState.hdd

GetPower == GetState.power

\* ----- asyncio.sleep(d) in the click body: due d after now.  No body in the
\* region: nothing is due.
NoTimer == [now |-> 0, wake |-> 0]

SleepSkipped(d) == [timer EXCEPT !.wake = timer.now]

Sleep(d) == [timer EXCEPT !.wake = timer.now + d]

\* ----- gpiod.Line.set_value
SetValueStuck(l, v) == [lines EXCEPT ![l] = 1]

SetValue(l, v) == [lines EXCEPT ![l] = v]

\* ----- AioNotifier.notify: a generator suspended in wait() becomes runnable;
\* a notify with nobody waiting is not remembered.
NotifierNotify(s) == IF s = "waiting" THEN "ready" ELSE s

\* ----- AioExclusiveRegion
RegionIsBusy == busy

\* __init__: the region is built with self.__notifier, the notifier
\* poll_state waits on.
RegionNotifierNone(s) == s

RegionNotifier(s) == NotifierNotify(s)

\* exit(): clears busy and posts the notifier.
RegionExit ==
    /\ busy' = FALSE
    /\ spc' = RegionNotifier(spc)
    /\ UNCHANGED <<prev_state, state, emitted, changes>>

\* ----- Init: the plugin as __init__ leaves it; the reader's cache holds
\* whatever the pins read.
Init ==
    /\ chip = FALSE
    /\ prep = [handles |-> 0, exc |-> "none"]
    /\ lines = [l \in SwitchLines |-> 0]
    /\ leds \in [LedPins -> BOOLEAN]
    /\ busy = FALSE
    /\ req = [t \in Tasks |-> NoReq]
    /\ pc = [t \in Tasks |-> "idle"]
    /\ caller = [t \in Tasks |-> "none"]
    /\ exc = [t \in Tasks |-> "none"]
    /\ spc = "ready"
    /\ prev_state = None
    /\ state = None
    /\ emitted = None
    /\ changes = 0
    /\ timer = NoTimer

\* ----- sysprep: opens the chip and requests both switch lines with default_val=0.
\* Its assertions let it run only while nothing was acquired; the host runs it
\* before it serves any operation.
sysprep ==
    /\ chip = FALSE
    /\ chip' = TRUE
    /\ prep' = [handles |-> 1, exc |-> "none"]
    /\ lines' = [l \in SwitchLines |-> 0]
    /\ UNCHANGED <<leds, busy, req, pc, caller, exc, timer>>
    /\ UNCHANGED streamVars

\* ----- sysprep called a second time, the handles of the first call in place.
\* `assert self.__chip is None` raises AssertionError and nothing changes.  Run
\* with assertions stripped (python -O), the call opens the chip and requests
\* the lines again: the handles are replaced by new ones, and a request either
\* raises (the line is taken already) or succeeds, setting default_val=0.
sysprep_again ==
    /\ chip
    /\ prep = [handles |-> 1, exc |-> "none"]
    /\ \E stripped \in BOOLEAN :
         IF ~stripped
         THEN /\ prep' = [prep EXCEPT !.exc = "AssertionError"]
              /\ UNCHANGED lines
         ELSE \E e \in {"none", "OSError"} :
                /\ prep' = [handles |-> prep.handles + 1, exc |-> e]
                /\ lines' = IF e = "none" THEN [l \in SwitchLines |-> 0] ELSE lines
    /\ UNCHANGED <<chip, leds, busy, req, pc, caller, exc, timer>>
    /\ UNCHANGED streamVars

\* ----- __inner_click, first step: line.set_value(1), then the hold sleep.
\* When set_value(1) raises, the finally clause runs at once: set_value(0), then
\* the settle sleep, with the error pending.
InnerClickStart(t, r, ok) ==
    /\ lines' = IF ok THEN SetValue(r.line, 1) ELSE SetValue(r.line, 0)
    /\ pc' = [pc EXCEPT ![t] = IF ok THEN "hold" ELSE "settle"]
    /\ exc' = [exc EXCEPT ![t] = IF ok THEN "none" ELSE "error"]
    /\ timer' = IF ok THEN Sleep(r.delay) ELSE Sleep(SettleDelay)

\* ----- __click: `if wait:` chooses the blocking branch.
BlockingAlways(wait) == TRUE

BlockingNever(wait) == FALSE

Blocking(wait) == wait

\* ----- __click: both branches go through the one region self.__region.
ClickRegionBusyBlockingOnly(wait) == wait /\ RegionIsBusy

ClickRegionBusy(wait) == RegionIsBusy

\* ----- __click, wait false, region free: run_region_task takes the region,
\* hands the body to a background task and returns.
RunRegionTaskAwaited(t, r) ==
    /\ req' = [req EXCEPT ![t] = r]
    /\ busy' = TRUE
    /\ pc' = [pc EXCEPT ![t] = "spawned"]
    /\ caller' = [caller EXCEPT ![t] = "suspended"]
    /\ UNCHANGED timer

RunRegionTask(t, r) ==
    /\ req' = [req EXCEPT ![t] = r]
    /\ busy' = TRUE
    /\ pc' = [pc EXCEPT ![t] = "spawned"]
    /\ caller' = [caller EXCEPT ![t] = "returned"]
    /\ UNCHANGED timer

\* ----- __click(name, line, delay, wait), called through operation op by task t.
Click(t, op, name, line, delay, wait) ==
    LET r == [op |-> op, name |-> name, line |-> line, delay |-> delay, wait |-> wait] IN
    /\ UNCHANGED <<chip, prep, leds>>
    /\ UNCHANGED streamVars
    /\ IF Blocking(wait)
       THEN \* async with self.__region: await self.__inner_click(...)
            /\ req' = [req EXCEPT ![t] = r]
            /\ caller' = [caller EXCEPT ![t] = "suspended"]
            /\ IF ClickRegionBusy(wait)
               THEN /\ pc' = [pc EXCEPT ![t] = "waiting"]
                    /\ exc' = [exc EXCEPT ![t] = "none"]
                    /\ UNCHANGED <<busy, lines, timer>>
               ELSE /\ busy' = TRUE
                    /\ \E ok \in BOOLEAN : InnerClickStart(t, r, ok)
       ELSE \* run_region_task(msg, self.__region, self.__inner_click, ...)
            /\ exc' = [exc EXCEPT ![t] = "none"]
            /\ UNCHANGED lines
            /\ IF ClickRegionBusy(wait)
               THEN /\ req' = [req EXCEPT ![t] = [NoReq EXCEPT !.wait = wait]]
                    /\ pc' = [pc EXCEPT ![t] = "rejected"]
                    /\ caller' = [caller EXCEPT ![t] = "busy"]
                    /\ UNCHANGED <<busy, timer>>
               ELSE RunRegionTask(t, r)

click_power(t, op, wait) == Click(t, op, "power", "power_switch", ClickDelay, wait)

click_power_long(t, op, wait) ==
    Click(t, op, "power_long", "power_switch", LongClickDelay, wait)

click_reset_power_line(t, op, wait) ==
    Click(t, op, "reset", "power_switch", ClickDelay, wait)

click_reset(t, op, wait) == Click(t, op, "reset", "reset_switch", ClickDelay, wait)

\* A power operation that finds nothing to do returns without a click.
PowerNoop(t, op, wait) ==
    /\ req' = [req EXCEPT ![t] = [NoReq EXCEPT !.op = op]]
    /\ pc' = [pc EXCEPT ![t] = "noop"]
    /\ caller' = [caller EXCEPT ![t] = "returned"]
    /\ exc' = [exc EXCEPT ![t] = "none"]
    /\ UNCHANGED <<chip, prep, leds, lines, busy, timer>>
    /\ UNCHANGED streamVars

power_on_always(t, wait) == click_power(t, "power_on", wait)

power_on(t, wait) ==
    IF ~GetPower THEN click_power(t, "power_on", wait) ELSE PowerNoop(t, "power_on", wait)

power_off(t, wait) ==
    IF GetPower THEN click_power(t, "power_off", wait) ELSE PowerNoop(t, "power_off", wait)

power_off_hard(t, wait) ==
    IF GetPower THEN click_power_long(t, "power_off_hard", wait)
    ELSE PowerNoop(t, "power_off_hard", wait)

power_reset_hard(t, wait) ==
    IF GetPower THEN click_reset(t, "power_reset_hard", wait)
    ELSE PowerNoop(t, "power_reset_hard", wait)

\* A task whose previous operation is over calls one of the seven operations:
\* a click,
CallClick(t) ==
    /\ chip
    /\ pc[t] \in Finished
    /\ \E wait \in BOOLEAN :
         \/ click_power(t, "click_power", wait)
         \/ click_power_long(t, "click_power_long", wait)
         \/ click_reset(t, "click_reset", wait)

\* or a power operation.
CallPower(t) ==
    /\ chip
    /\ pc[t] \in Finished
    /\ \E wait \in BOOLEAN :
         \/ power_on(t, wait)
         \/ power_off(t, wait)
         \/ power_off_hard(t, wait)
         \/ power_reset_hard(t, wait)

Call(t) == CallClick(t) \/ CallPower(t)

\* ----- leaving `async with self.__region` / the region of run_region_task:
\* exit() runs whatever way the body ended (e is the body's pending exception).
LeaveRegionOnSuccess(e) ==
    IF e = "none" THEN RegionExit ELSE UNCHANGED <<busy, spc, prev_state, state, emitted, changes>>

LeaveRegionNever(e) == UNCHANGED <<busy, spc, prev_state, state, emitted, changes>>

LeaveRegion(e) == RegionExit

\* The arguments and the pending exception of a click are dropped with its frame
\* when it is over.  What the caller of a click sees when the body ends with e pending: a blocking
\* caller gets the body's outcome, a non-blocking caller has returned already.
CallerOutcomeAlways(t, e) ==
    [caller EXCEPT ![t] = CASE e = "none" -> "returned"
                            [] e = "error" -> "raised"
                            [] OTHER -> "cancelled"]

CallerOutcome(t, e) ==
    IF req[t].wait
    THEN [caller EXCEPT ![t] = CASE e = "none" -> "returned"
                                 [] e = "error" -> "raised"
                                 [] OTHER -> "cancelled"]
    ELSE caller

\* ----- the region's blocking entry resumes once the region is free.
EnterBlocking(t) ==
    /\ pc[t] = "waiting"
    /\ ~RegionIsBusy
    /\ busy' = TRUE
    /\ \E ok \in BOOLEAN : InnerClickStart(t, req[t], ok)
    /\ UNCHANGED <<chip, prep, leds, req, caller>>
    /\ UNCHANGED streamVars

\* ----- the background task of a non-blocking click starts its body.
StartSpawned(t) ==
    /\ pc[t] = "spawned"
    /\ \E ok \in BOOLEAN : InnerClickStart(t, req[t], ok)
    /\ UNCHANGED <<chip, prep, leds, busy, req, caller>>
    /\ UNCHANGED streamVars

\* ----- __inner_click: the finally clause when the hold sleep was interrupted.
InnerClickNoFinally(l) == lines

InnerClickInterrupted(l) == SetValue(l, 0)

\* ----- __inner_click: the hold sleep is over; finally: set_value(0), settle sleep.
HoldElapsed(t) ==
    /\ pc[t] = "hold"
    /\ lines' = SetValue(req[t].line, 0)
    /\ pc' = [pc EXCEPT ![t] = "settle"]
    /\ timer' = Sleep(SettleDelay)
    /\ UNCHANGED <<chip, prep, leds, busy, req, caller, exc>>
    /\ UNCHANGED streamVars

\* ----- __inner_click: the settle sleep is over; the body ends (logging the click,
\* or re-raising what was pending) and the region is left.
SettleElapsed(t) ==
    /\ pc[t] = "settle"
    /\ pc' = [pc EXCEPT ![t] = "done"]
    /\ caller' = CallerOutcome(t, exc[t])
    /\ LeaveRegion(exc[t])
    /\ req' = [req EXCEPT ![t] = NoReq]
    /\ exc' = [exc EXCEPT ![t] = "none"]
    /\ timer' = NoTimer
    /\ UNCHANGED <<chip, prep, leds, lines>>

\* ----- cancellation of the task running a click, at each of its suspensions.
\* Waiting for the region: the click never enters it.
CancelWaiting(t) ==
    /\ pc[t] = "waiting"
    /\ pc' = [pc EXCEPT ![t] = "aborted"]
    /\ caller' = [caller EXCEPT ![t] = "cancelled"]
    /\ req' = [req EXCEPT ![t] = NoReq]
    /\ UNCHANGED <<chip, prep, leds, lines, busy, exc, timer>>
    /\ UNCHANGED streamVars

\* Before the background body has started: the region is left.
CancelSpawned(t) ==
    /\ pc[t] = "spawned"
    /\ pc' = [pc EXCEPT ![t] = "done"]
    /\ req' = [req EXCEPT ![t] = NoReq]
    /\ LeaveRegion("cancelled")
    /\ UNCHANGED <<chip, prep, leds, lines, caller, exc, timer>>

\* In sleep(delay): the finally clause runs, then the settle sleep.
CancelHold(t) ==
    /\ pc[t] = "hold"
    /\ lines' = InnerClickInterrupted(req[t].line)
    /\ pc' = [pc EXCEPT ![t] = "settle"]
    /\ exc' = [exc EXCEPT ![t] = "cancelled"]
    /\ timer' = Sleep(SettleDelay)
    /\ UNCHANGED <<chip, prep, leds, busy, req, caller>>
    /\ UNCHANGED streamVars

\* In sleep(1) of the finally clause: the body ends, the region is left.
CancelSettle(t) ==
    /\ pc[t] = "settle"
    /\ pc' = [pc EXCEPT ![t] = "done"]
    /\ req' = [req EXCEPT ![t] = NoReq]
    /\ exc' = [exc EXCEPT ![t] = "none"]
    /\ caller' = CallerOutcome(t, "cancelled")
    /\ LeaveRegion("cancelled")
    /\ timer' = NoTimer
    /\ UNCHANGED <<chip, prep, leds, lines>>

\* ----- __init__: the reader is built with notifier=self.__notifier, the
\* notifier poll_state waits on.
ReaderNotifierApart(s) == s

ReaderNotifier(s) == NotifierNotify(s)

\* ----- systask / AioPinsReader.poll: a transition of an input pin updates the
\* cached value of that pin and posts the notifier.
ReaderTransition(pin) ==
    /\ leds' = [leds EXCEPT ![pin] = ~leds[pin]]
    /\ spc' = ReaderNotifier(spc)
    /\ changes' = IF spc \in {"waiting", "ready"}
                  THEN (IF changes = 0 THEN 1 ELSE 2)
                  ELSE changes
    /\ UNCHANGED <<chip, prep, lines, busy, req, pc, caller, exc, timer>>
    /\ UNCHANGED <<prev_state, state, emitted>>

\* ----- poll_state
\* `state = await self.get_state()`
PollSnapshot == GetState

\* `if state != prev_state`
PollChangedAlways(s, prev) == TRUE

PollChanged(s, prev) == s # prev

\* The generator runs from its wake-up (or its first pull) to its next suspension:
\* the yield, or notifier.wait() when nothing changed.
Resume ==
    /\ spc = "ready"
    /\ LET s == PollSnapshot IN
         /\ state' = s
         /\ IF PollChanged(s, prev_state)
            THEN /\ spc' = "yielded"
                 /\ emitted' = s
                 /\ UNCHANGED changes
            ELSE /\ spc' = "waiting"
                 /\ changes' = 0
                 /\ UNCHANGED emitted
    /\ UNCHANGED <<chip, prep, leds, prev_state>>
    /\ UNCHANGED clickVars

\* The consumer pulls the next item: `prev_state = state`, then notifier.wait().
Pull ==
    /\ spc = "yielded"
    /\ prev_state' = state
    /\ spc' = "waiting"
    /\ changes' = 0
    /\ UNCHANGED <<chip, prep, leds, state, emitted>>
    /\ UNCHANGED clickVars

\* The consumer drops the generator and calls poll_state() again.
Restart ==
    /\ spc \in {"yielded", "waiting"}
    /\ spc' = "ready"
    /\ prev_state' = None
    /\ state' = None
    /\ emitted' = None
    /\ changes' = 0
    /\ UNCHANGED <<chip, prep, leds>>
    /\ UNCHANGED clickVars

\* ----- the whole plugin, off the clock: a sleep ends at any moment.
Next ==
    \/ sysprep
    \/ sysprep_again
    \/ \E t \in Tasks : Call(t)
    \/ \E t \in Tasks : EnterBlocking(t)
    \/ \E t \in Tasks : StartSpawned(t)
    \/ \E t \in Tasks : HoldElapsed(t)
    \/ \E t \in Tasks : SettleElapsed(t)
    \/ \E t \in Tasks : CancelWaiting(t)
    \/ \E t \in Tasks : CancelSpawned(t)
    \/ \E t \in Tasks : CancelHold(t)
    \/ \E t \in Tasks : CancelSettle(t)
    \/ \E pin \in LedPins : ReaderTransition(pin)
    \/ Resume
    \/ Pull
    \/ Restart

Spec == Init /\ [][Next]_vars

\* ----- the click side: every task's operations and the reader of the power
\* LED, no generator running.  No action of the generator writes a variable of
\* the click side, and no operation reads the HDD LED (__get_power reads
\* leds.power alone), so the click side behaves under Spec as it does here.
ClickInit == Init /\ ~leds["hdd_led"]

ClickNext ==
    \/ sysprep
    \/ \E t \in Tasks : Call(t)
    \/ \E t \in Tasks : EnterBlocking(t)
    \/ \E t \in Tasks : StartSpawned(t)
    \/ \E t \in Tasks : HoldElapsed(t)
    \/ \E t \in Tasks : SettleElapsed(t)
    \/ \E t \in Tasks : CancelWaiting(t)
    \/ \E t \in Tasks : CancelSpawned(t)
    \/ \E t \in Tasks : CancelHold(t)
    \/ \E t \in Tasks : CancelSettle(t)
    \/ ReaderTransition("power_led")

ClickSpec == ClickInit /\ [][ClickNext]_vars

\* ----- the click side under fair scheduling: a sleep elapses, a spawned
\* background task gets to run, and the region's blocking entry succeeds
\* eventually (a waiter is not passed over forever).  Nothing obliges a caller to
\* call or anybody to cancel.  The calls are the three click operations, which
\* the power operations come down to and which do not read the LEDs.
LiveClickNext ==
    \/ sysprep
    \/ \E t \in Tasks : CallClick(t)
    \/ \E t \in Tasks : EnterBlocking(t)
    \/ \E t \in Tasks : StartSpawned(t)
    \/ \E t \in Tasks : HoldElapsed(t)
    \/ \E t \in Tasks : SettleElapsed(t)
    \/ \E t \in Tasks : CancelWaiting(t)
    \/ \E t \in Tasks : CancelSpawned(t)
    \/ \E t \in Tasks : CancelHold(t)
    \/ \E t \in Tasks : CancelSettle(t)

ClickFairness ==
    \A t \in Tasks :
        /\ WF_vars(StartSpawned(t))
        /\ WF_vars(HoldElapsed(t))
        /\ WF_vars(SettleElapsed(t))
        /\ SF_vars(EnterBlocking(t))

LiveClickSpec == ClickInit /\ [][LiveClickNext]_vars /\ ClickFairness

\* ----- the click side on the clock: time passes while a body sleeps in the
\* region, up to the moment its sleep is due; a sleep nobody interrupts ends
\* when it is due.  A spawned body is runnable at once (nothing is due before
\* it), and time outside the region is not measured.
Tick ==
    /\ busy
    /\ timer.now < timer.wake
    /\ timer' = [timer EXCEPT !.now = @ + 1]
    /\ UNCHANGED <<chip, prep, lines, leds, busy, req, pc, caller, exc>>
    /\ UNCHANGED streamVars

HoldDue(t) == timer.now = timer.wake /\ HoldElapsed(t)

SettleDue(t) == timer.now = timer.wake /\ SettleElapsed(t)

TimedNext ==
    \/ sysprep
    \/ \E t \in Tasks : CallClick(t)
    \/ \E t \in Tasks : EnterBlocking(t)
    \/ \E t \in Tasks : StartSpawned(t)
    \/ \E t \in Tasks : HoldDue(t)
    \/ \E t \in Tasks : SettleDue(t)
    \/ \E t \in Tasks : CancelWaiting(t)
    \/ \E t \in Tasks : CancelSpawned(t)
    \/ \E t \in Tasks : CancelHold(t)
    \/ \E t \in Tasks : CancelSettle(t)
    \/ Tick

TimedSpec == ClickInit /\ [][TimedNext]_vars

\* ----- start-up: the host prepares the plugin, a second time too, while the
\* reader and the stream run; it serves no click yet.
PrepNext ==
    \/ sysprep
    \/ sysprep_again
    \/ \E pin \in LedPins : ReaderTransition(pin)
    \/ Resume
    \/ Pull
    \/ Restart

PrepSpec == Init /\ [][PrepNext]_vars

\* ----- the stream side: the generator, the reader, and one task clicking.  The
\* generator sees the click side through the busy flag and the notifier only,
\* and one task drives both as any number of tasks do: busy is set by a call or
\* by a waiter entering (no notify either way) and cleared by exit() (notify).
Clicker == CHOOSE t \in Tasks : TRUE

StreamNext ==
    \/ sysprep
    \/ Call(Clicker)
    \/ StartSpawned(Clicker)
    \/ HoldElapsed(Clicker)
    \/ SettleElapsed(Clicker)
    \/ CancelSpawned(Clicker)
    \/ CancelHold(Clicker)
    \/ CancelSettle(Clicker)
    \/ \E pin \in LedPins : ReaderTransition(pin)
    \/ Resume
    \/ Pull
    \/ Restart

StreamSpec == Init /\ [][StreamNext]_vars

\* ----- the stream side under fair scheduling: the woken generator gets to run,
\* the consumer keeps pulling, a spawned background task gets to run and a sleep
\* elapses.  Nothing obliges anybody to call, to cancel or to restart the
\* stream, nor an input to change.
StreamFairness ==
    /\ WF_vars(Resume)
    /\ WF_vars(Pull)
    /\ WF_vars(StartSpawned(Clicker))
    /\ WF_vars(HoldElapsed(Clicker))
    /\ WF_vars(SettleElapsed(Clicker))

LiveStreamSpec == StreamSpec /\ StreamFairness

\* ======================================================================
\* Properties
\* ======================================================================

\* Tasks whose click body is inside the region.
InRegion == {t \in Tasks : pc[t] \in Inside}

\* Tasks whose click body is between its assert and its deassert.
Asserting == {t \in Tasks : pc[t] = "hold"}

\* C1 -- mutual exclusion: in every reachable state at most one click body is
\* inside the region, so at most one is between its assert and its deassert,
\* whichever operations, modes and switch lines the concurrent calls use.
MutualExclusion ==
    /\ Cardinality(InRegion) <= 1
    /\ Cardinality(Asserting) <= 1
    /\ \A t \in InRegion : busy

\* C1 witness: a click holds a line asserted while another click, for the other
\* line, is held back at the region.
MutualExclusionWitness ==
    \E t, u \in Tasks :
        /\ pc[t] = "hold"
        /\ pc[u] = "waiting"
        /\ req[t].line # req[u].line

\* C2 -- guaranteed deassert: a click body past its hold sleep, however the sleep
\* ended, has its line deasserted while it still owns the region; a line is
\* asserted only while a click body for that line is in its hold sleep, so none
\* stays asserted once the body has ended.
GuaranteedDeassert ==
    /\ \A t \in Tasks : pc[t] = "settle" => (lines[req[t].line] = 0 /\ busy)
    /\ \A l \in SwitchLines :
         lines[l] = 1 => \E t \in Tasks : pc[t] = "hold" /\ req[t].line = l

\* C2 witness: a body cancelled in its hold sleep, now in the settle sleep of its
\* finally clause.
GuaranteedDeassertWitness ==
    \E t \in Tasks : pc[t] = "settle" /\ exc[t] = "cancelled"

\* The other tasks are left as they are by a step.
OthersUnchanged(t) ==
    \A u \in Tasks \ {t} :
        /\ pc'[u] = pc[u]
        /\ req'[u] = req[u]
        /\ caller'[u] = caller[u]
        /\ exc'[u] = exc[u]

\* Task t, whose previous operation is over, makes a call in this step.
Calls(t) == pc[t] \in Finished /\ (pc'[t] # pc[t] \/ req'[t] # req[t])

\* C3 -- busy rejection: a click called with wait=false while the region is busy
\* fails with the Busy error in the step of the call: the caller never waits,
\* no output line changes, the busy flag stays set and the click in flight and
\* every other task are left as they are.
BusyRejection ==
    /\ [](\A t \in Tasks :
            /\ pc[t] = "rejected" => caller[t] = "busy"
            /\ pc[t] = "waiting" => req[t].wait
            /\ pc[t] = "noop" => req[t].op \in PowerOps)
    /\ [][\A t \in Tasks :
            (pc[t] # "rejected" /\ pc'[t] = "rejected") =>
                /\ pc[t] \in Finished
                /\ busy /\ busy'
                /\ lines' = lines
                /\ OthersUnchanged(t)
                /\ UNCHANGED streamVars]_vars
    /\ [][\A t \in Tasks :
            (busy /\ Calls(t)) =>
                \/ pc'[t] = "rejected"
                \/ pc'[t] = "noop"
                \/ pc'[t] = "waiting" /\ req'[t].wait]_vars

\* C3 witness: a non-blocking click was rejected while a blocking click holds
\* the region.
BusyRejectionWitness ==
    \E t, u \in Tasks :
        /\ pc[t] = "rejected" /\ caller[t] = "busy"
        /\ pc[u] = "hold" /\ req[u].wait

\* C4 -- a click called with wait=true is never rejected with the Busy error:
\* its caller stays suspended while the region is busy, and it leaves the wait
\* only by taking the free region and starting its own click body (or by being
\* cancelled).
BlockingNeverRejected ==
    /\ [](\A t \in Tasks :
            /\ pc[t] = "rejected" => ~req[t].wait
            /\ pc[t] = "waiting" => (req[t].wait /\ caller[t] = "suspended"))
    /\ [][\A t \in Tasks :
            (busy /\ Calls(t) /\ req'[t].wait) => pc'[t] \in {"waiting", "noop"}]_vars
    /\ [][\A t \in Tasks :
            (pc[t] = "waiting" /\ pc'[t] # "waiting") =>
                \/ pc'[t] = "aborted"
                \/ /\ ~busy /\ busy'
                   /\ req'[t] = req[t]
                   /\ caller'[t] = "suspended"
                   /\ \/ pc'[t] = "hold" /\ lines'[req[t].line] = 1
                      \/ pc'[t] = "settle" /\ exc'[t] = "error"
                   /\ OthersUnchanged(t)]_vars

\* C4 witness: a blocking click suspended at the region while another click is
\* in its settle sleep.
BlockingNeverRejectedWitness ==
    \E t, u \in Tasks :
        /\ pc[t] = "waiting" /\ req[t].wait /\ caller[t] = "suspended"
        /\ pc[u] = "settle"

\* C6 -- region release on every exit path: the region is busy exactly while a
\* click body is inside it; the busy flag is cleared in the step in which that
\* body ends, however it ends, and a release never happens while another body is
\* inside.
RegionRelease ==
    /\ [](busy <=> InRegion # {})
    /\ [][\A t \in Tasks :
            (pc[t] \in Inside /\ pc'[t] \notin Inside) =>
                (busy /\ ~busy' /\ pc'[t] = "done")]_vars
    /\ [][(busy /\ ~busy') =>
            \E t \in Tasks :
                /\ pc[t] \in Inside /\ pc'[t] = "done"
                /\ \A u \in Tasks \ {t} : pc[u] \notin Inside]_vars

\* C6 witness: a click body that was cancelled has ended and the region is free.
RegionReleaseWitness ==
    \E t \in Tasks : pc[t] = "done" /\ caller[t] = "cancelled" /\ ~busy

\* A power operation called with this power-LED value has nothing to do.
NothingToDo(op, power) ==
    \/ op = "power_on" /\ power
    \/ op \in {"power_off", "power_off_hard", "power_reset_hard"} /\ ~power

\* C7 -- idempotent power operations: power_on called with the power LED on,
\* and power_off, power_off_hard and power_reset_hard called with it off, return
\* without error for either value of wait, assert no line, do not enter the
\* region and leave the busy flag and every other task as they are.
IdempotentPowerOps ==
    [][\A t \in Tasks :
          (Calls(t) /\ req'[t].op \in PowerOps /\ NothingToDo(req'[t].op, GetPower)) =>
              /\ pc'[t] = "noop"
              /\ caller'[t] = "returned"
              /\ lines' = lines
              /\ busy' = busy
              /\ OthersUnchanged(t)
              /\ UNCHANGED streamVars]_vars

\* C7 witness: power_on returned without a click while the region is busy.
IdempotentPowerOpsWitness ==
    \E t, u \in Tasks :
        /\ pc[t] = "noop" /\ req[t].op = "power_on" /\ caller[t] = "returned"
        /\ pc[u] = "hold" /\ busy

\* The line and the hold delay each operation is to click with.
DesignatedLine(op) ==
    IF op \in {"power_reset_hard", "click_reset"} THEN "reset_switch" ELSE "power_switch"

DesignatedDelay(op) ==
    IF op \in {"power_off_hard", "click_power_long"} THEN LongClickDelay ELSE ClickDelay

\* C8 -- power-operation mapping: a power operation that has something to do
\* clicks, and every click in flight carries its operation's designated line and
\* hold delay; while it holds, its line alone is asserted, and an output line
\* changes only in a step of a click designated for that line.
PowerMapping ==
    /\ [](\A t \in Tasks :
            pc[t] \in {"waiting", "spawned", "hold", "settle"} =>
                /\ req[t].line = DesignatedLine(req[t].op)
                /\ req[t].delay = DesignatedDelay(req[t].op)
                /\ pc[t] = "hold" =>
                     lines = [l \in SwitchLines |-> IF l = req[t].line THEN 1 ELSE 0])
    /\ [][\A t \in Tasks :
            (Calls(t) /\ pc'[t] = "noop") => NothingToDo(req'[t].op, GetPower)]_vars
    /\ [][\A l \in SwitchLines :
            lines'[l] # lines[l] =>
                \E t \in Tasks :
                    /\ pc[t] = "hold" \/ pc'[t] = "hold"
                    /\ DesignatedLine(req'[t].op) = l \/ DesignatedLine(req[t].op) = l]_vars

\* C8 witness: power_reset_hard holds the reset line asserted.
PowerMappingWitness ==
    \E t \in Tasks :
        /\ pc[t] = "hold" /\ req[t].op = "power_reset_hard"
        /\ lines["reset_switch"] = 1 /\ lines["power_switch"] = 0

\* C5 -- liveness of blocking clicks: under fair scheduling every click called
\* with wait=true comes to its end: it enters the region, runs its body through
\* the settle sleep and hands its outcome to the caller (or is cancelled while
\* it waits); it never waits forever, whatever else is called meanwhile.
BlockingLiveness ==
    \A t \in Tasks :
        (req[t].wait /\ pc[t] \in {"waiting", "hold", "settle"})
            ~> (pc[t] \in {"done", "aborted"}
                /\ caller[t] \in {"returned", "raised", "cancelled"})

\* C5 witness: a blocking click waits behind a non-blocking click that holds the
\* region.
BlockingLivenessWitness ==
    \E t, u \in Tasks :
        /\ pc[t] = "waiting" /\ req[t].wait
        /\ pc[u] = "hold" /\ ~req[u].wait

\* C9 -- no duplicate emission: a snapshot the generator yields differs from
\* the one it yielded before, whatever input changes, clicks and notifications
\* happen in between.
NoDuplicateEmission ==
    /\ [](spc = "yielded" => (state # prev_state /\ emitted = state))
    /\ [](spc \in {"waiting", "ready"} => prev_state = emitted)
    /\ [][(spc # "yielded" /\ spc' = "yielded") => state' # emitted]_vars

\* C9 witness: the generator has yielded a second snapshot.
NoDuplicateEmissionWitness ==
    spc = "yielded" /\ prev_state # None /\ state # prev_state

\* The latest state: the busy flag and the cached value of each LED.
Latest ==
    [busy |-> busy, power |-> leds["power_led"], hdd |-> leds["hdd_led"], none |-> FALSE]

\* The generator, woken, runs in this step after two or more input transitions
\* happened while it was suspended in notifier.wait().
ResumesAfterBurst == spc = "ready" /\ changes = 2 /\ spc' # "ready"

\* C10 as stated -- the input changed twice before the generator resumed: the
\* consumer gets one snapshot, equal to the latest state.
CoalescingAsStated ==
    [][ResumesAfterBurst => (spc' = "yielded" /\ state' = Latest)]_vars

\* C10 amended -- the input changed twice or more while the generator was
\* suspended in notifier.wait(): if the latest state differs from the snapshot
\* the consumer received last, the consumer gets one snapshot, equal to the
\* latest state; if the changes cancelled out, it gets none.  Either way the
\* generator yields nothing more before a further notify.
Coalescing ==
    /\ [][ResumesAfterBurst =>
            IF Latest # emitted
            THEN spc' = "yielded" /\ state' = Latest /\ emitted' = Latest
            ELSE spc' = "waiting" /\ emitted' = emitted]_vars
    /\ [][(spc = "yielded" /\ spc' # "yielded") =>
            (spc' = "waiting" \/ prev_state' = None)]_vars
    /\ [][(spc = "waiting" /\ spc' = "ready" /\ prev_state' # None) =>
            (leds' # leds \/ (busy /\ ~busy'))]_vars

\* C10 witness: after a burst of two or more transitions the generator has
\* yielded one snapshot to a consumer that had received one before.
CoalescingWitness ==
    spc = "yielded" /\ changes = 2 /\ prev_state # None

\* The snapshots get_state can return.
Snapshots ==
    {[busy |-> b, power |-> p, hdd |-> h, none |-> FALSE] : b, p, h \in BOOLEAN}

\* C11 -- eventual consistency of the stream: a state S that is reached and
\* then stays is received by a consumer that keeps pulling, wherever the change
\* to S (and its notify) falls relative to the generator's yield and its
\* notifier.wait(): always, eventually, the state is not S or the snapshot the
\* consumer received last is S.
EventualConsistency ==
    \A S \in Snapshots : []<>(Latest # S \/ emitted = S)

\* C11 case: an input changed, and its notify was posted, after the generator
\* yielded a snapshot and before it suspended in notifier.wait().
ChangeBeforeWait ==
    spc = "waiting" /\ changes = 0 /\ prev_state # None /\ Latest # emitted

\* C12 -- non-blocking click on a free region: the call marks the region busy
\* and returns in the same step, before the body has touched a line; the body
\* runs in the background with the region busy and the caller returned, and
\* the region is released by that body ending only from its settle sleep, its
\* line deasserted (or by its task being cancelled before the body started).
NonBlockingClick ==
    /\ [](\A t \in Tasks :
            (pc[t] \in Inside /\ ~req[t].wait) => (busy /\ caller[t] = "returned"))
    /\ [][\A t \in Tasks :
            (~busy /\ Calls(t) /\ ~req'[t].wait /\ pc'[t] # "noop") =>
                /\ busy'
                /\ pc'[t] = "spawned"
                /\ caller'[t] = "returned"
                /\ lines' = lines
                /\ OthersUnchanged(t)]_vars
    /\ [][\A t \in Tasks :
            (pc[t] \in Inside /\ ~req[t].wait /\ ~busy') =>
                \/ pc[t] = "settle" /\ lines[req[t].line] = 0
                \/ pc[t] = "spawned" /\ lines = [l \in SwitchLines |-> 0]]_vars

\* C12 witness: the caller of a non-blocking click has returned and the
\* background body, past its deassert, is in the settle sleep with the region
\* busy.
NonBlockingClickWitness ==
    \E t \in Tasks :
        /\ pc[t] = "settle" /\ ~req[t].wait /\ exc[t] = "none"
        /\ caller[t] = "returned" /\ busy

\* C13 -- click sequencing: a click body asserts its line as it enters, with
\* its hold sleep due the hold delay after entry; the hold sleep running to its
\* end, the line is deasserted at that moment and the settle sleep is due
\* SettleDelay later; the region is busy at every moment of both sleeps and is
\* released, the busy flag of get_state false, when the settle sleep has run
\* to its end: hold delay + 1 s after entry (1.1 s for the default click).
ClickSequencing ==
    /\ [](\A t \in Tasks :
            /\ pc[t] = "hold" =>
                  /\ GetState.busy /\ lines[req[t].line] = 1
                  /\ timer.wake = req[t].delay /\ timer.now <= timer.wake
            /\ (pc[t] = "settle" /\ exc[t] = "none") =>
                  /\ GetState.busy /\ lines[req[t].line] = 0
                  /\ timer.wake = req[t].delay + SettleDelay
                  /\ req[t].delay <= timer.now /\ timer.now <= timer.wake)
    /\ [](~GetState.busy => timer = NoTimer)
    /\ [][\A t \in Tasks :
            (pc[t] # "hold" /\ pc'[t] = "hold") =>
                (timer.now = 0 /\ timer'.now = 0 /\ lines'[req'[t].line] = 1)]_vars
    /\ [][\A t \in Tasks :
            (pc[t] = "hold" /\ pc'[t] = "settle" /\ exc'[t] = "none") =>
                (timer.now = req[t].delay /\ lines'[req[t].line] = 0 /\ busy')]_vars
    /\ [][\A t \in Tasks :
            (pc[t] = "settle" /\ exc[t] = "none" /\ pc'[t] = "done"
                /\ timer.now = timer.wake) =>
                (timer.now = req[t].delay + SettleDelay /\ ~GetState'.busy)]_vars
    /\ [][\A t \in Tasks :
            (pc[t] = "settle" /\ exc[t] = "none" /\ caller'[t] = "returned"
                /\ req[t].wait) =>
                timer.now = req[t].delay + SettleDelay]_vars

\* C13 witness: the default click, 1.1 s after it entered the region, its line
\* deasserted since 0.1 s, the region still busy and about to be released.
ClickSequencingWitness ==
    \E t \in Tasks :
        /\ pc[t] = "settle" /\ exc[t] = "none" /\ req[t].delay = ClickDelay
        /\ timer.now = ClickDelay + SettleDelay
        /\ busy /\ lines[req[t].line] = 0

\* C14 -- sysprep is idempotent: once a first call has acquired the chip and
\* the lines, whatever further calls were made raised nothing and left the
\* handles those of the first call, both lines deasserted.
PrepareIdempotent ==
    chip => (prep = [handles |-> 1, exc |-> "none"]
             /\ lines = [l \in SwitchLines |-> 0])

\* C14 case: a second sysprep call was made after a successful first one.
PreparedTwice == chip /\ prep # [handles |-> 1, exc |-> "none"]

\* C15 -- output lines are written only under the region: an asserted line
\* means the region is busy with a click body for that line inside it; with
\* the busy flag false (as at the start) both lines are deasserted; the two
\* lines are never asserted together; and a step that changes a line is taken
\* with the region busy after it, by a body for that line inside it.
WrittenUnderRegion ==
    /\ [](\A l \in SwitchLines :
            lines[l] = 1 =>
                (busy /\ \E t \in Tasks : pc[t] \in Inside /\ req[t].line = l))
    /\ [](~busy => lines = [l \in SwitchLines |-> 0])
    /\ [](~(lines["power_switch"] = 1 /\ lines["reset_switch"] = 1))
    /\ [][\A l \in SwitchLines :
            lines'[l] # lines[l] =>
                (busy' /\ \E t \in Tasks : pc'[t] \in Inside /\ req'[t].line = l)]_vars

\* C15 witness: the reset line is asserted by a body in the busy region after
\* an earlier click has ended.
WrittenUnderRegionWitness ==
    \E t, u \in Tasks :
        /\ pc[t] = "hold" /\ req[t].line = "reset_switch"
        /\ lines["reset_switch"] = 1 /\ busy
        /\ pc[u] = "done"

\* The body of the non-blocking click of task t has failed and is in the settle
\* sleep of its finally clause, the error pending.
FailedInBackground(t) == pc[t] = "settle" /\ exc[t] = "error" /\ ~req[t].wait

\* C16 -- failure of a background click: when the body of a non-blocking click
\* fails inside the region, be it in the assert itself, its line is deasserted
\* in the step of the failure and stays so, the caller, who has returned, gets
\* nothing of the failure then or when the body ends, and the body ends by
\* releasing the region: under fair scheduling the region comes free and a
\* click waiting behind the failed one gets past its wait.
BackgroundFailure ==
    /\ [](\A t \in Tasks :
            FailedInBackground(t) =>
                (caller[t] = "returned" /\ lines[req[t].line] = 0 /\ busy))
    /\ [][\A t \in Tasks :
            (FailedInBackground(t)' /\ ~FailedInBackground(t)) =>
                (pc[t] = "spawned" /\ caller[t] = "returned")]_vars
    /\ [][\A t \in Tasks :
            (FailedInBackground(t) /\ pc'[t] # "settle") =>
                /\ pc'[t] = "done"
                /\ caller'[t] = "returned"
                /\ lines' = lines
                /\ ~busy']_vars
    /\ \A t \in Tasks : FailedInBackground(t) ~> ~busy
    /\ \A t, u \in Tasks :
            (FailedInBackground(t) /\ pc[u] = "waiting") ~> pc[u] # "waiting"

\* C16 witness: the assert of a non-blocking click has failed; its caller has
\* returned, and a blocking click waits for the region.
BackgroundFailureWitness ==
    \E t, u \in Tasks :
        /\ FailedInBackground(t) /\ caller[t] = "returned"
        /\ pc[u] = "waiting"

\* C17 -- input polling pipeline: a step that changes the cached value of an
\* input pin changes that pin alone, wakes the generator suspended in
\* notifier.wait() and touches nothing of the click side; a snapshot taken by
\* get_state carries the cached value of each pin as it is then; and no step
\* of a click or power operation, of sysprep or of the generator changes a
\* cached value.
InputPipeline ==
    /\ [][\A pin \in LedPins :
            leds'[pin] # leds[pin] =>
                /\ \A q \in LedPins \ {pin} : leds'[q] = leds[q]
                /\ spc = "waiting" => spc' = "ready"
                /\ spc # "waiting" => spc' = spc
                /\ GetState'.power = leds'["power_led"]
                /\ GetState'.hdd = leds'["hdd_led"]
                /\ UNCHANGED <<chip, lines, busy, req, pc, caller, exc>>
                /\ UNCHANGED <<prev_state, state, emitted>>]_vars
    /\ [][(spc = "ready" /\ spc' # "ready") =>
            (state'.power = leds["power_led"] /\ state'.hdd = leds["hdd_led"])]_vars
    /\ [][(\/ <<chip, lines, busy, req, pc, caller, exc>>'
                # <<chip, lines, busy, req, pc, caller, exc>>
            \/ <<prev_state, state, emitted>>' # <<prev_state, state, emitted>>) =>
            leds' = leds]_vars

\* C17 witness: the HDD LED has changed while a click is in flight, and the
\* generator, woken by the reader, is about to take a snapshot that differs in
\* the HDD LED from the one it yielded last.
InputPipelineWitness ==
    /\ spc = "ready" /\ changes = 1 /\ prev_state # None
    /\ leds["hdd_led"] # emitted.hdd
    /\ leds["power_led"] = emitted.power
    /\ busy

\* C18 -- release is visible: the step in which a click releases the region
\* clears the busy flag and wakes the generator suspended in notifier.wait(),
\* the consumer's last snapshot as it was; and a woken generator whose
\* consumer holds a snapshot with busy=true while the region is free delivers
\* a snapshot with busy=false, unless a click enters the region before.
ReleaseVisible ==
    /\ [][(busy /\ ~busy') =>
            /\ spc = "waiting" => spc' = "ready"
            /\ emitted' = emitted
            /\ ~GetState'.busy]_vars
    /\ (spc = "ready" /\ ~busy /\ emitted.busy)
            ~> (busy \/ (~emitted.none /\ ~emitted.busy))

\* C18 witness: the consumer's last snapshot says busy=true, the generator is
\* suspended in notifier.wait(), and the click is in its settle sleep, about
\* to release the region.
ReleaseVisibleWitness ==
    /\ spc = "waiting" /\ emitted.busy /\ busy
    /\ pc[Clicker] = "settle"

\* C19 -- entry is visible: a consumer whose generator is suspended in
\* notifier.wait(), its last snapshot saying busy=false, receives a snapshot
\* with busy=true before the click that enters the region releases it, the
\* inputs staying as they are.  A generator in wait() runs again only when the
\* notifier is posted, and with the inputs unchanged nobody posts it before the
\* release but the entry: the step that enters the region makes the waiting
\* generator runnable.
EntryVisible ==
    [][(~busy /\ busy' /\ spc = "waiting" /\ ~emitted.none /\ ~emitted.busy) =>
            spc' = "ready"]_vars

\* C19 case: a click entered the region while the generator waited, and holds
\* its line asserted; no input has changed since the generator suspended, and
\* the consumer's last snapshot says busy=false.
EnteredUnseen ==
    /\ spc = "waiting" /\ changes = 0
    /\ ~emitted.none /\ ~emitted.busy
    /\ busy /\ pc[Clicker] = "hold"

\* C20 -- the decision of a power operation is taken once, at the call, on the
\* power LED as it is then: the call returns without a click exactly when the
\* operation has nothing to do at that moment; a click that waits for the
\* region or for its background task is never turned into a no-op, and when it
\* gets to run it asserts its line, whatever the power LED says by then; a
\* change of the power LED leaves every click under way as it is.
PowerDecisionOnce ==
    /\ [][\A t \in Tasks :
            (Calls(t) /\ req'[t].op \in PowerOps) =>
                (pc'[t] = "noop" <=> NothingToDo(req'[t].op, leds["power_led"]))]_vars
    /\ [][\A t \in Tasks :
            (pc[t] \in {"waiting", "spawned"} /\ pc'[t] # pc[t]) =>
                /\ pc'[t] \in {"hold", "settle", "aborted", "done"}
                /\ pc'[t] \in {"hold", "settle"} => (req'[t] = req[t] /\ busy')
                /\ pc'[t] = "hold" => lines'[req[t].line] = 1
                /\ pc'[t] = "settle" => exc'[t] = "error"
                /\ pc'[t] = "done" => pc[t] = "spawned"]_vars
    /\ [][\A t \in Tasks :
            (pc[t] \in {"waiting", "spawned", "hold", "settle"} /\ leds' # leds) =>
                (pc'[t] = pc[t] /\ req'[t] = req[t] /\ lines' = lines)]_vars

\* C20 witness: two power_on(wait=true) calls were made with the power LED
\* off; one holds the power line asserted, the other waits for the region, and
\* the power LED has come on meanwhile.
PowerDecisionOnceWitness ==
    \E t, u \in Tasks :
        /\ pc[t] = "hold" /\ req[t].op = "power_on" /\ req[t].wait
        /\ pc[u] = "waiting" /\ req[u].op = "power_on" /\ req[u].wait
        /\ lines["power_switch"] = 1
        /\ GetPower

====
